---- MODULE Spec2Model ----
(***************************************************************************)
(* Model of the two scraping services of the repository:                   *)
(*   src/webscrapper_api.py  the workflow orchestrator (analyze ->         *)
(*                           check_robots -> extract -> save) with its     *)
(*                           static and rendered per-URL pipelines;        *)
(*   src/main.py             the direct batch endpoint scrape_website and  *)
(*                           its per-URL pipeline.                         *)
(* Each service is one process with its own SCRAPING_STATE; a behaviour    *)
(* follows one of them (prog).  A handler runs as an asyncio task (a run); *)
(* an action is the code a run executes from one await to the next, a      *)
(* fetch being issued and answered inside the action that awaits it.       *)
(* What the network, the pages, robots.txt, the browser and the language   *)
(* model answer is drawn from the sets held in env.                        *)
(***************************************************************************)
EXTENDS Integers, Sequences, FiniteSets, TLC

VARIABLES
    prog,            \* "api" (webscrapper_api.py) or "main" (main.py)
    env,             \* what clients send and what the outside world may answer
    SCRAPING_STATE,  \* the process-wide dict of the running service
    run              \* per request task: its position, locals and response

vars == <<prog, env, SCRAPING_STATE, run>>

\* ------------------------------------------------------------- bounds
MaxRuns == 2       \* request tasks of one process
MaxSeeds == 2      \* seed URLs in one request
MaxLimit == 2      \* largest product_limit a request carries
MaxLinks == 2      \* product links found on one page
MaxBlocks == 2     \* containers on a followed or listing page

\* -------------------------------------------------- program constants
NumProfiles == 2   \* len(SCRAPING_STATE["headers_list"])
DefaultLimit == 5  \* SCRAPING_STATE.get("product_limit", 5)
ExpandCap == 10    \* extract_node: at most 10 expanded URLs
FollowCap == 5     \* follow_links = product_links[:min(5, product_limit)]
BlockCap == 3      \* containers2[:3]

None == "None"

Runs == 1..MaxRuns

Min(a, b) == IF a <= b THEN a ELSE b
Max(a, b) == IF a >= b THEN a ELSE b

\* Python's s[:n], n of either sign
PySlice(s, n) ==
    IF n >= 0 THEN SubSeq(s, 1, Min(n, Len(s)))
    ELSE SubSeq(s, 1, Max(Len(s) + n, 0))

\* sequences over S of length lo..hi
SeqsOf(S, lo, hi) == UNION {[1..n -> S] : n \in lo..hi}

\* sequences over S without repetition, of length 0..hi (a list made from a set)
RECURSIVE NoDup(_)
NoDup(s) ==
    IF Len(s) <= 1 THEN TRUE
    ELSE /\ \A k \in 2..Len(s) : s[k] # s[1]
         /\ NoDup(Tail(s))
ListsOf(S, hi) == {s \in SeqsOf(S, 0, hi) : NoDup(s)}

Range(s) == {s[k] : k \in 1..Len(s)}

\* list(dict.fromkeys(s)): first occurrences, order kept
RECURSIVE Unique(_)
Unique(s) ==
    IF s = <<>> THEN <<>>
    ELSE LET front == Unique(SubSeq(s, 1, Len(s) - 1))
             last == s[Len(s)]
         IN IF last \in Range(front) THEN front ELSE Append(front, last)

\* --------------------------------------------------------------- URLs
SeedUrls == {"a/x", "a/y"}
LinkUrls == {"a/p1", "a/p2"}

\* scheme://netloc of a URL, the key of the robots cache
Origin(u) == IF u \in {"a/x", "a/y", "a/p1", "a/p2"} THEN "a" ELSE "b"
Origins == {"a", "b"}

Rec(t, l, p) == [title |-> t, link |-> l, price |-> p]

\* SCRAPING_STATE["headers_list"], and the fields headers.update adds
Profile(ua) == [User_Agent |-> ua, Accept |-> None, Accept_Language |-> None]
headers_list == <<Profile("Windows"), Profile("Macintosh")>>
Updated(headers) ==
    [headers EXCEPT !.Accept = "text/html", !.Accept_Language = "en-US"]

\* the dict get_next_headers returns: the copy of the profile at the index,
\* updated
headers_of(S) == Updated(S.headers_list[S.current_header_index + 1])

\* a variant without .copy(): the profile in the list is updated itself
get_next_headers_in_place(S) ==
    [S EXCEPT !.headers_list[S.current_header_index + 1] = Updated(@),
              !.current_header_index = (@ + 1) % NumProfiles]

\* get_next_headers: the profile at the index is copied, the index advances
get_next_headers(S) ==
    [S EXCEPT !.current_header_index = (@ + 1) % NumProfiles]


\* ------------------------------------------------ records of the model
NoCheck == [url |-> None, can_fetch |-> TRUE, crawl_delay |-> 0,
            status |-> "absent", error |-> FALSE]

NoContainer == [title |-> None, href |-> None, price |-> None]
NoResult == [error |-> FALSE, msg |-> None, data |-> <<>>]
NoBody == [urls |-> <<>>, product_limit |-> DefaultLimit, use_selenium |-> FALSE]
NoResp == [code |-> 0]
NoPage == [ok |-> FALSE]
\* the analysis analyze_website starts from (url is filled in by the call)
NoAnalysis ==
    [url |-> None, is_dynamic |-> FALSE, is_ecommerce |-> FALSE,
     detected_patterns |-> <<>>, recommended_method |-> "beautifulsoup",
     error |-> FALSE]

\* a task that has not been handed a request
IdleRun ==
    [pc |-> "idle", body |-> NoBody, resp |-> NoResp,
     \* ScraperState
     status |-> "none", analysis_result |-> NoAnalysis,
     robots_check |-> NoCheck, extracted_data |-> <<>>, error_msg |-> None,
     records |-> -1,
     \* locals of extract_node and run_workflow
     ctx |-> "none", i |-> 0, expanded_urls |-> <<>>,
     product_links_seen |-> {}, final_urls |-> <<>>, seed_links |-> <<>>,
     j |-> 0, all_data |-> <<>>, result |-> NoResult,
     \* locals of the per-URL pipeline
     url |-> None, limit |-> 0, data |-> <<>>, containers |-> <<>>,
     links |-> <<>>, doc |-> None, driver |-> FALSE, llm_calls |-> 0,
     llm_outcome |-> "none",
     page |-> NoPage,
     \* what the task has done so far
     sessions |-> 0, n_expand |-> 0, n_bs |-> 0, n_sel |-> 0, n_check |-> 0,
     n_fail |-> 0, limits_used |-> {}, robots_outcome |-> "none",
     \* locals of scrape_website and of its pipeline (main.py)
     errors |-> <<>>, product_links |-> <<>>,
     \* the argument and the return value of a call of extract_price
     price_in |-> [elem |-> FALSE, txt |-> <<>>, attr |-> <<>>, script |-> <<>>],
     price |-> <<>>,
     \* the dict the task's last call of get_next_headers returned
     headers |-> Profile(None)]

\* ----------------------------------------------- check_robots_txt
\* RobotFileParser.read() then crawl_delay("*") and can_fetch("*", url):
\* o.kind "http_403" is a 401/403 answer (disallow_all), "http_404" another
\* 4xx (allow_all), "http_5xx" leaves the parser unread (can_fetch is False),
\* "parsed" a policy whose verdict for url is o.allow.
RobotsAnswer(o, url) ==
    LET can == CASE o.kind = "http_403" -> FALSE
                 [] o.kind = "http_404" -> TRUE
                 [] o.kind = "http_5xx" -> FALSE
                 [] OTHER -> o.allow
        delay == IF o.kind = "parsed" /\ o.delay # 0 THEN o.delay ELSE 1
    IN [url |-> url, can_fetch |-> can, crawl_delay |-> delay,
        status |-> IF can THEN "allowed" ELSE "disallowed", error |-> FALSE]

RobotsDefault(url) ==
    [url |-> url, can_fetch |-> TRUE, crawl_delay |-> 1,
     status |-> "no_robots_txt", error |-> TRUE]

\* a variant that reads robots.txt on every call and stores what it reads
check_robots_txt_refetching(S, url, o) ==
    IF o.kind = "raise"
    THEN [result |-> RobotsDefault(url), S |-> S, outcome |-> o.kind]
    ELSE [result |-> RobotsAnswer(o, url),
          S |-> [S EXCEPT !.robots_cache[Origin(url)] = RobotsAnswer(o, url)],
          outcome |-> o.kind]

\* the decision returned and the cache afterwards
check_robots_txt(S, url, o) ==
    LET key == Origin(url) IN
    IF S.robots_cache[key] # NoCheck
    THEN [result |-> S.robots_cache[key], S |-> S, outcome |-> "cached"]
    ELSE IF o.kind = "raise"
    THEN [result |-> RobotsDefault(url), S |-> S, outcome |-> o.kind]
    ELSE [result |-> RobotsAnswer(o, url),
          S |-> [S EXCEPT !.robots_cache[key] = RobotsAnswer(o, url)],
          outcome |-> o.kind]

\* ----------------------------------------- per-URL pipeline helpers
\* the record built from one container: own title, else the document title
ContainerRecord(c, doc, link) ==
    Rec(IF c.title # None THEN c.title ELSE doc, link, c.price)

Keep(rec) == rec.title # None \/ rec.price # None

RECURSIVE ContainerRecords(_, _, _, _)
\* one record per container that has a title or a price; fixed is the link
\* of a followed page, None on the page itself (the container's own link)
ContainerRecords(cs, doc, url, fixed) ==
    IF cs = <<>> THEN <<>>
    ELSE LET c == Head(cs)
             link == IF fixed # None THEN fixed
                     ELSE IF c.href # None THEN c.href ELSE url
             rec == ContainerRecord(c, doc, link)
             rest == ContainerRecords(Tail(cs), doc, url, fixed)
         IN IF Keep(rec) THEN <<rec>> \o rest ELSE rest

\* a variant without the finally clause: the driver is dropped, not quit
QuitSkipped(me) == [me EXCEPT !.driver = FALSE]

\* finally: driver.quit() when a driver was created
Quit(me) ==
    [me EXCEPT !.sessions = IF me.driver THEN @ - 1 ELSE @, !.driver = FALSE]

\* the locals of a function that has returned are gone
LeaveLoop(me) ==
    [me EXCEPT !.ctx = "none", !.i = 0, !.expanded_urls = <<>>,
               !.product_links_seen = {}, !.final_urls = <<>>, !.j = 0,
               !.seed_links = <<>>,
               !.all_data = <<>>, !.result = NoResult, !.url = None,
               !.limit = 0, !.data = <<>>, !.containers = <<>>,
               !.links = <<>>, !.doc = None, !.llm_calls = 0,
               !.llm_outcome = "none",
               !.product_links = <<>>, !.page = NoPage]

\* the loop over the URLs to extract: the next pipeline is entered, or the
\* loop is left (extract_node sets the status, run_workflow answers)
NextUrl(me) ==
    LET urls == IF me.ctx = "rerun" THEN me.body.urls ELSE me.final_urls IN
    IF me.j <= Len(urls)
    THEN [me EXCEPT !.url = urls[me.j],
                    !.pc = IF me.ctx = "rerun" \/ me.analysis_result.is_dynamic
                           THEN "sel_start" ELSE "bs_fetch",
                    !.limit = 0, !.data = <<>>, !.containers = <<>>,
                    !.links = <<>>, !.doc = None, !.llm_calls = 0,
               !.llm_outcome = "none",
                    !.page = NoPage]
    ELSE IF me.ctx = "rerun"
    THEN [LeaveLoop(me) EXCEPT
                    !.extracted_data = me.all_data, !.status = "completed",
                    !.pc = "done",
                    !.resp = [code |-> 200, records |-> Len(me.all_data),
                              data |-> me.all_data]]
    ELSE [LeaveLoop(me) EXCEPT
                    !.extracted_data = me.all_data,
                    !.status = IF me.all_data # <<>> THEN "extracted" ELSE "no_data",
                    !.pc = "save"]

\* a pipeline returns res to its caller
Return(me, res) ==
    IF me.ctx = "direct"
    THEN [me EXCEPT !.result = res, !.pc = "done"]
    ELSE NextUrl([me EXCEPT !.result = res, !.all_data = @ \o res.data,
                            !.j = @ + 1])

ErrorResult(msg) == [error |-> TRUE, msg |-> msg, data |-> <<>>]

\* the end of a pipeline: the placeholder when nothing was collected
Finish(me) ==
    LET data == IF me.data = <<>>
                THEN <<Rec(IF me.doc # None THEN me.doc ELSE "No title",
                           me.url, None)>>
                ELSE me.data
    IN Return(Quit(me), [error |-> FALSE, msg |-> None, data |-> data])

\* after containers and link following: the model fallback, or the end
AfterHeuristics(me, llm_pc) ==
    IF me.data = <<>> /\ me.containers # <<>>
    THEN [me EXCEPT !.pc = llm_pc]
    ELSE Finish(me)

\* the page has been parsed: product_limit is read from SCRAPING_STATE, a
\* page with several containers is skipped as a listing, the single
\* container is extracted, and the links to follow are chosen
OnPage(me, S, p, follow_pc, llm_pc) ==
    LET product_limit == IF S.has_product_limit THEN S.product_limit
                         ELSE DefaultLimit
        containers == IF p.nc > 1 THEN <<>>
                      ELSE IF p.nc = 1 THEN <<p.c>> ELSE <<>>
        data == ContainerRecords(PySlice(containers, product_limit), p.doc,
                                 me.url, None)
        follow_links == PySlice(p.links, Min(FollowCap, product_limit))
        me1 == [me EXCEPT !.limit = product_limit,
                          !.limits_used = @ \cup {product_limit},
                          !.doc = p.doc, !.containers = containers,
                          !.data = data, !.links = <<>>, !.page = p]
    IN IF (containers = <<>> \/ data = <<>>) /\ p.links # <<>> /\ follow_links # <<>>
       THEN [me1 EXCEPT !.pc = follow_pc, !.links = follow_links]
       ELSE AfterHeuristics(me1, llm_pc)

\* one followed product link has been loaded: up to 3 of its containers
OnFollowed(me, sp, llm_pc) ==
    LET link == Head(me.links)
        more == IF sp.ok
                THEN ContainerRecords(PySlice(sp.cs, BlockCap), sp.doc, link, link)
                ELSE <<>>
        me1 == [me EXCEPT !.data = @ \o more, !.links = Tail(@)]
    IN IF me1.links = <<>> THEN AfterHeuristics(me1, llm_pc) ELSE me1

\* the model's answer: items are appended until one is ill-typed
OnLlm(me, o) ==
    LET items == IF o.kind \in {"items", "illtyped"} THEN o.items ELSE <<>>
        recs == [k \in 1..Len(items) |->
                   Rec(items[k].title,
                       IF items[k].link # None THEN items[k].link ELSE me.url,
                       items[k].price)]
    IN Finish([me EXCEPT !.data = @ \o recs, !.llm_calls = @ + 1,
                         !.llm_outcome = o.kind])


\* ------------------------------------- webscrapper_api.py: the actions
\* a variant of scrape_endpoint that stores product_limit before it looks
\* at urls
scrape_endpoint_storing_first(r) ==
    /\ prog = "api"
    /\ run[r].pc = "idle"
    /\ \E body \in env.bodies :
         /\ SCRAPING_STATE' = [SCRAPING_STATE EXCEPT
                                  !.has_product_limit = TRUE,
                                  !.product_limit = body.product_limit]
         /\ run' = IF body.urls = <<>>
                   THEN [run EXCEPT ![r].pc = "done", ![r].body = body,
                                    ![r].resp = [code |-> 400]]
                   ELSE [run EXCEPT ![r].pc = "analyze", ![r].body = body,
                                    ![r].status = "initialized",
                                    ![r].extracted_data = <<>>]
    /\ UNCHANGED <<prog, env>>

\* scrape_endpoint up to the workflow's start: an empty urls list is
\* answered 400 before anything else; otherwise product_limit is stored in
\* SCRAPING_STATE and the workflow starts from the initial state
scrape_endpoint(r) ==
    /\ prog = "api"
    /\ run[r].pc = "idle"
    /\ \E body \in env.bodies :
         IF body.urls = <<>>
         THEN /\ run' = [run EXCEPT ![r].pc = "done", ![r].body = body,
                                    ![r].resp = [code |-> 400]]
              /\ UNCHANGED SCRAPING_STATE
         ELSE /\ SCRAPING_STATE' = [SCRAPING_STATE EXCEPT
                                       !.has_product_limit = TRUE,
                                       !.product_limit = body.product_limit]
              /\ run' = [run EXCEPT ![r].pc = "analyze", ![r].body = body,
                                    ![r].status = "initialized",
                                    ![r].extracted_data = <<>>]
    /\ UNCHANGED <<prog, env>>

\* a variant of analyze_website whose failure recommends the browser
analyze_website_failing_dynamic(url, a) ==
    IF a.ok
    THEN [NoAnalysis EXCEPT !.url = url, !.is_dynamic = a.dyn,
            !.recommended_method = IF a.dyn THEN "selenium" ELSE @,
            !.is_ecommerce = a.patterns # <<>>,
            !.detected_patterns = a.patterns]
    ELSE [NoAnalysis EXCEPT !.url = url, !.error = TRUE, !.is_dynamic = TRUE,
                            !.recommended_method = "selenium"]

\* analyze_website: the page is fetched and parsed (a.ok), a script names a
\* client-side framework (a.dyn), a.patterns are the e-commerce keywords
\* some class matches; an exception leaves the analysis as it started, with
\* an error note
analyze_website(url, a) ==
    IF a.ok
    THEN [NoAnalysis EXCEPT !.url = url, !.is_dynamic = a.dyn,
            !.recommended_method = IF a.dyn THEN "selenium" ELSE @,
            !.is_ecommerce = a.patterns # <<>>,
            !.detected_patterns = a.patterns]
    ELSE [NoAnalysis EXCEPT !.url = url, !.error = TRUE]

\* analyze_node: analyze_website on the first seed (one rotated fetch)
analyze_node(r) ==
    /\ prog = "api"
    /\ run[r].pc = "analyze"
    /\ \E a \in env.analyses :
         run' = [run EXCEPT ![r].pc = "check_robots",
                            ![r].analysis_result =
                                analyze_website(run[r].body.urls[1], a),
                            ![r].status = "analyzed"]
    /\ SCRAPING_STATE' = get_next_headers(SCRAPING_STATE)
    /\ UNCHANGED <<prog, env>>

\* check_robots_node: the decision for the first seed is stored in the state
check_robots_node(r) ==
    /\ prog = "api"
    /\ run[r].pc = "check_robots"
    /\ \E o \in env.robots :
         LET got == check_robots_txt(SCRAPING_STATE, run[r].body.urls[1], o) IN
         /\ run' = [run EXCEPT ![r].pc = "extract",
                               ![r].robots_check = got.result,
                               ![r].robots_outcome = got.outcome]
         /\ SCRAPING_STATE' = got.S
    /\ UNCHANGED <<prog, env>>

\* extract_node's entry: a disallowing decision ends the node at once
extract_node(r) ==
    /\ prog = "api"
    /\ run[r].pc = "extract"
    /\ run' = IF ~run[r].robots_check.can_fetch
              THEN [run EXCEPT ![r].error_msg = "Blocked by robots.txt",
                               ![r].status = "blocked",
                               ![r].pc = "save"]
              ELSE [run EXCEPT ![r].pc = "expand", ![r].i = 1,
                               ![r].expanded_urls = <<>>,
                               ![r].product_links_seen = {},
                               ![r].seed_links = <<>>]
    /\ UNCHANGED <<prog, env, SCRAPING_STATE>>

RECURSIVE AddLinks(_, _, _)
\* the loop over one seed's product links: unseen links are appended until
\* the list holds 10
AddLinks(expanded, seen, links) ==
    IF links = <<>> THEN [expanded |-> expanded, seen |-> seen]
    ELSE IF Head(links) \in seen THEN AddLinks(expanded, seen, Tail(links))
    ELSE IF Len(expanded) + 1 >= ExpandCap
    THEN [expanded |-> Append(expanded, Head(links)),
          seen |-> seen \cup {Head(links)}]
    ELSE AddLinks(Append(expanded, Head(links)), seen \cup {Head(links)},
                  Tail(links))

\* extract_node, one seed: its page is fetched and its product links, or
\* the seed itself, join expanded_urls; after the last seed the list is made
\* unique, cut to 10, and the per-URL extractions start
expand_seed(r) ==
    /\ prog = "api"
    /\ run[r].pc = "expand"
    /\ \E f \in env.seedpages :
         LET me == run[r]
             seed == me.body.urls[me.i]
             got == IF ~f.ok \/ f.links = <<>>
                    THEN [expanded |-> Append(me.expanded_urls, seed),
                          seen |-> me.product_links_seen]
                    ELSE AddLinks(me.expanded_urls, me.product_links_seen,
                                  f.links)
             me1 == [me EXCEPT !.expanded_urls = got.expanded,
                               !.product_links_seen = got.seen,
                               !.seed_links = Append(@, IF f.ok THEN f.links
                                                        ELSE <<>>),
                               !.i = @ + 1, !.n_expand = @ + 1]
         IN run' = [run EXCEPT ![r] =
                      IF me1.i <= Len(me.body.urls) THEN me1
                      ELSE NextUrl([me1 EXCEPT
                             !.final_urls = PySlice(Unique(got.expanded), ExpandCap),
                             !.ctx = "extract", !.all_data = <<>>, !.j = 1])]
    /\ SCRAPING_STATE' = get_next_headers(SCRAPING_STATE)
    /\ UNCHANGED <<prog, env>>

\* extract_with_beautifulsoup up to its first await after the page: the
\* page is fetched with rotated headers; a failure is an error result
bs_fetch(r) ==
    /\ prog = "api"
    /\ run[r].pc = "bs_fetch"
    /\ \E p \in env.pages :
         LET me == [run[r] EXCEPT !.n_bs = @ + 1] IN
         run' = [run EXCEPT ![r] =
                   IF p.ok THEN OnPage(me, SCRAPING_STATE, p, "bs_follow", "bs_llm")
                   ELSE Return(me, ErrorResult("fetch"))]
    /\ SCRAPING_STATE' = get_next_headers(SCRAPING_STATE)
    /\ UNCHANGED <<prog, env>>

\* one product link is fetched (rotated headers); a failure skips the link
bs_follow(r) ==
    /\ prog = "api"
    /\ run[r].pc = "bs_follow"
    /\ \E sp \in env.subpages :
         run' = [run EXCEPT ![r] = OnFollowed(run[r], sp, "bs_llm")]
    /\ SCRAPING_STATE' = get_next_headers(SCRAPING_STATE)
    /\ UNCHANGED <<prog, env>>

\* the model fallback of the static pipeline
bs_llm(r) ==
    /\ prog = "api"
    /\ run[r].pc = "bs_llm"
    /\ \E o \in env.llms :
         run' = [run EXCEPT ![r] = OnLlm(run[r], o)]
    /\ UNCHANGED <<prog, env, SCRAPING_STATE>>

\* extract_with_selenium: the driver is created, or the error result is
\* returned at once
sel_start(r) ==
    /\ prog = "api"
    /\ run[r].pc = "sel_start"
    /\ \E created \in env.chrome :
         LET me == [run[r] EXCEPT !.n_sel = @ + 1, !.driver = FALSE] IN
         run' = [run EXCEPT ![r] =
                   IF created
                   THEN [me EXCEPT !.driver = TRUE, !.sessions = @ + 1,
                                   !.pc = "sel_load"]
                   ELSE Return(Quit(me), ErrorResult("Chrome driver not found"))]
    /\ UNCHANGED <<prog, env, SCRAPING_STATE>>

\* driver.get(url), the scroll and the parse; an exception is an error
\* result, and the finally clause quits the driver
sel_load(r) ==
    /\ prog = "api"
    /\ run[r].pc = "sel_load"
    /\ \E p \in env.pages :
         run' = [run EXCEPT ![r] =
                   IF p.ok
                   THEN OnPage(run[r], SCRAPING_STATE, p, "sel_follow", "sel_llm")
                   ELSE Return(Quit(run[r]), ErrorResult("render"))]
    /\ UNCHANGED <<prog, env, SCRAPING_STATE>>

\* driver.get(prod_link); an exception skips the link
sel_follow(r) ==
    /\ prog = "api"
    /\ run[r].pc = "sel_follow"
    /\ \E sp \in env.subpages :
         run' = [run EXCEPT ![r] = OnFollowed(run[r], sp, "sel_llm")]
    /\ UNCHANGED <<prog, env, SCRAPING_STATE>>

\* the model fallback of the rendered pipeline
sel_llm(r) ==
    /\ prog = "api"
    /\ run[r].pc = "sel_llm"
    /\ \E o \in env.llms :
         run' = [run EXCEPT ![r] = OnLlm(run[r], o)]
    /\ UNCHANGED <<prog, env, SCRAPING_STATE>>

\* a variant of the filter that keeps every record
DedupByLinkKeepingAll(items, seen_links) == items

RECURSIVE DedupByLink(_, _)
\* save_node's filter: the first record of each link, records without a
\* link dropped
DedupByLink(items, seen_links) ==
    IF items = <<>> THEN <<>>
    ELSE LET item == Head(items) IN
         IF item.link # None /\ item.link \notin seen_links
         THEN <<item>> \o DedupByLink(Tail(items), seen_links \cup {item.link})
         ELSE DedupByLink(Tail(items), seen_links)

\* save_node: the workflow's last node
save_node(r) ==
    /\ prog = "api"
    /\ run[r].pc = "save"
    /\ run' = IF run[r].extracted_data = <<>>
              THEN [run EXCEPT ![r].error_msg = "No data to save",
                               ![r].status = "failed",
                               ![r].pc = "after"]
              ELSE LET unique_data == DedupByLink(run[r].extracted_data, {}) IN
                   [run EXCEPT ![r].extracted_data = unique_data,
                               ![r].status = "completed",
                               ![r].records = Len(unique_data),
                               ![r].pc = "after"]
    /\ UNCHANGED <<prog, env, SCRAPING_STATE>>

\* run_workflow after workflow.ainvoke: with use_selenium every seed is
\* extracted again with the rendered pipeline; otherwise the answer is made
\* from the workflow's extracted_data
after_workflow(r) ==
    /\ prog = "api"
    /\ run[r].pc = "after"
    /\ run' = [run EXCEPT ![r] =
                 IF run[r].body.use_selenium
                 THEN NextUrl([run[r] EXCEPT !.ctx = "rerun",
                                             !.all_data = <<>>, !.j = 1])
                 ELSE [run[r] EXCEPT
                         !.pc = "done",
                         !.resp = [code |-> 200,
                                   records |-> Len(run[r].extracted_data),
                                   data |-> run[r].extracted_data]]]
    /\ UNCHANGED <<prog, env, SCRAPING_STATE>>

ApiStep(r) ==
    \/ scrape_endpoint(r)
    \/ analyze_node(r)
    \/ check_robots_node(r)
    \/ extract_node(r)
    \/ expand_seed(r)
    \/ bs_fetch(r)
    \/ bs_follow(r)
    \/ bs_llm(r)
    \/ sel_start(r)
    \/ sel_load(r)
    \/ sel_follow(r)
    \/ sel_llm(r)
    \/ save_node(r)
    \/ after_workflow(r)


\* ---------------------------------------------- main.py: the pipeline
\* title[:200]: "Long" stands for a text of more than 200 characters and
\* "Long200" for its first 200
Trunc(t) == IF t = "Long" THEN "Long200" ELSE t

\* a variant that looks at the image's alt text before the headings
ProductTitleAltFirst(c) ==
    IF c.alt # None THEN Trunc(c.alt)
    ELSE IF c.heading # None THEN c.heading
    ELSE IF c.sel # None THEN Trunc(c.sel)
    ELSE None

\* extract_product_info's title: the first heading as it is, else the first
\* title-ish element cut to 200, else the image's alt text cut to 200
ProductTitle(c) ==
    IF c.heading # None THEN c.heading
    ELSE IF c.sel # None THEN Trunc(c.sel)
    ELSE IF c.alt # None THEN Trunc(c.alt)
    ELSE None

\* extract_product_info: the container's own link or the page's URL; the
\* price of the container's price element, else the one an inline script
\* of the page carries
extract_product_info(c, base_url, script) ==
    Rec(ProductTitle(c),
        IF c.href # None THEN c.href ELSE base_url,
        IF c.price # None THEN c.price ELSE script)

\* a variant of the title test that finds no title in data
DupTitleNever(data, item) == FALSE

DupTitle(data, item) == \E k \in 1..Len(data) : data[k].title = item.title

RECURSIVE AddContainers(_, _, _, _, _, _)
\* the loop over containers: an item with a title or a price whose title is
\* not yet in data is appended; on a listing page (checked) the loop stops
\* when data holds product_limit items
AddContainers(data, cs, base_url, script, product_limit, checked) ==
    IF cs = <<>> THEN data
    ELSE IF checked /\ Len(data) >= product_limit THEN data
    ELSE LET item == extract_product_info(Head(cs), base_url, script)
             data1 == IF Keep(item) /\ ~DupTitle(data, item)
                      THEN Append(data, item) ELSE data
         IN AddContainers(data1, Tail(cs), base_url, script, product_limit,
                          checked)

\* the title of a product page: the first h1, else og:title, else <title>
DetailTitle(d) ==
    IF d.h1 # None THEN d.h1 ELSE IF d.og # None THEN d.og ELSE d.doc

RECURSIVE InsertSorted(_, _, _)
\* list.sort with key (price is None, title): stable, priced items first
TitleRank(t) ==
    CASE t = "Doc" -> 1 [] t = "Long200" -> 2 [] t = "Long" -> 3
      [] t = "No products found" -> 4 [] t = "T1" -> 5 [] t = "T2" -> 6
      [] t = "T3" -> 7 [] OTHER -> 0
SortKeyLess(a, b) ==
    \/ a.price # None /\ b.price = None
    \/ /\ (a.price = None) = (b.price = None)
       /\ TitleRank(a.title) < TitleRank(b.title)
InsertSorted(sorted, item, k) ==
    IF k > Len(sorted) THEN Append(sorted, item)
    ELSE IF SortKeyLess(item, sorted[k])
    THEN SubSeq(sorted, 1, k - 1) \o <<item>> \o SubSeq(sorted, k, Len(sorted))
    ELSE InsertSorted(sorted, item, k + 1)
RECURSIVE SortItems(_)
SortItems(items) ==
    IF items = <<>> THEN <<>>
    ELSE InsertSorted(SortItems(SubSeq(items, 1, Len(items) - 1)),
                      items[Len(items)], 1)

\* Python's truth of a text that may be missing
Truthy(v) == v \notin {None, ""}

RECURSIVE DedupKeepingAll(_, _)
\* a variant of the filter that never fills seen
DedupKeepingAll(items, seen) ==
    IF items = <<>> THEN <<>>
    ELSE IF Truthy(Head(items).title)
    THEN <<Head(items)>> \o DedupKeepingAll(Tail(items), seen)
    ELSE DedupKeepingAll(Tail(items), seen)

RECURSIVE DedupByTitleLink(_, _)
\* scrape_website's filter: the first item of each (title, link), items
\* without a title dropped
DedupByTitleLink(items, seen) ==
    IF items = <<>> THEN <<>>
    ELSE LET item == Head(items)
             key == <<item.title, item.link>>
         IN IF key \notin seen /\ Truthy(item.title)
            THEN <<item>> \o DedupByTitleLink(Tail(items), seen \cup {key})
            ELSE DedupByTitleLink(Tail(items), seen)

\* the end of scrape_website: duplicates removed, priced items first, at
\* most product_limit * len(urls) items returned
MainResponse(me) ==
    LET unique_data == SortItems(DedupByTitleLink(me.all_data, {})) IN
    [code |-> 200,
     status |-> IF unique_data # <<>> THEN "success" ELSE "no_data",
     data |-> PySlice(unique_data, me.body.product_limit * Len(me.body.urls)),
     total_items |-> Len(unique_data),
     errors |-> me.errors,
     errors_is_null |-> me.errors = <<>>]

\* scrape_website's loop: the next seed's access check, or the response
NextSeed(me) ==
    LET me1 == [LeaveLoop(me) EXCEPT !.ctx = "batch", !.i = me.i + 1,
                                     !.all_data = me.all_data,
                                     !.result = me.result,
                                     !.page = me.page]
    IN IF me1.i <= Len(me.body.urls)
       THEN [me1 EXCEPT !.pc = "m_check", !.url = me.body.urls[me1.i]]
       ELSE [me1 EXCEPT !.pc = "done", !.resp = MainResponse(me1),
                        !.ctx = "none", !.all_data = <<>>, !.i = 0,
                        !.result = NoResult, !.errors = <<>>]

ValidItems(data) ==
    SelectSeq(data, LAMBDA item :
        Truthy(item.title) /\ item.title # "No products found")

\* extract_with_beautifulsoup returns result to scrape_website: items with a
\* title are kept, an error text that is not empty is listed
MainReturn(me, result) ==
    IF me.ctx = "direct"
    THEN [me EXCEPT !.result = result, !.pc = "done"]
    ELSE LET me1 == [me EXCEPT !.result = result,
                               !.n_fail = IF result.error THEN @ + 1 ELSE @]
         IN NextSeed(
              IF result.data # <<>>
              THEN [me1 EXCEPT !.all_data = @ \o ValidItems(result.data)]
              ELSE IF result.error /\ result.msg # ""
              THEN [me1 EXCEPT !.errors = Append(@, [url |-> me.url,
                                                     what |-> result.msg])]
              ELSE me1)

\* a variant without the last resort: data is returned as it is
MainFinishBare(me) ==
    MainReturn(me, [error |-> FALSE, msg |-> None, data |-> me.data])

\* the last resort of the pipeline
MainFinish(me) ==
    MainReturn(me,
      [error |-> FALSE, msg |-> None,
       data |-> IF me.data = <<>>
                THEN <<Rec(IF me.doc # None THEN me.doc ELSE "No products found",
                           me.url, None)>>
                ELSE me.data])

\* after the listing pages: product links are followed while data is short
AfterListing(me) ==
    LET links == PySlice(me.product_links, me.limit) IN
    IF Len(me.data) < me.limit /\ links # <<>>
    THEN [me EXCEPT !.pc = "m_detail", !.links = links]
    ELSE MainFinish(me)

\* the page has been parsed: two or more containers make it a listing
MainOnPage(me, p) ==
    LET data == IF Len(p.cs) >= 2
                THEN AddContainers(<<>>, PySlice(p.cs, me.limit), me.url,
                                   p.script, me.limit, FALSE)
                ELSE <<>>
        me1 == [me EXCEPT !.data = data, !.doc = p.doc,
                          !.product_links = p.links, !.page = p]
    IN IF Len(data) < me.limit /\ p.listing # <<>>
       THEN [me1 EXCEPT !.pc = "m_listing", !.links = p.listing]
       ELSE AfterListing(me1)

\* ------------------------------------------------ main.py: the actions
\* scrape_website up to its loop: an empty urls list is answered 400
scrape_website(r) ==
    /\ prog = "main"
    /\ run[r].pc = "idle"
    /\ \E body \in env.bodies :
         run' = [run EXCEPT ![r] =
                   IF body.urls = <<>>
                   THEN [run[r] EXCEPT !.pc = "done", !.body = body,
                                       !.resp = [code |-> 400]]
                   ELSE NextSeed([run[r] EXCEPT !.body = body, !.i = 0,
                                                !.all_data = <<>>,
                                                !.errors = <<>>])]
    /\ UNCHANGED <<prog, env, SCRAPING_STATE>>

\* the access check of one seed: an exception or a status of 400 or more is
\* listed and the loop goes on; otherwise the pipeline is called
access_check(r) ==
    /\ prog = "main"
    /\ run[r].pc = "m_check"
    /\ \E a \in env.checks :
         LET me == [run[r] EXCEPT !.n_check = @ + 1] IN
         run' = [run EXCEPT ![r] =
                   CASE a.kind = "raise" ->
                          NextSeed([me EXCEPT !.n_fail = @ + 1, !.errors =
                                      Append(@, [url |-> me.url, what |-> a.msg])])
                     [] a.kind = "http_error" ->
                          NextSeed([me EXCEPT !.n_fail = @ + 1, !.errors =
                                      Append(@, [url |-> me.url, what |-> "HTTP"])])
                     [] OTHER ->
                          [me EXCEPT !.pc = "m_fetch",
                                     !.limit = me.body.product_limit]]
    /\ SCRAPING_STATE' = get_next_headers(SCRAPING_STATE)
    /\ UNCHANGED <<prog, env>>

\* extract_with_beautifulsoup: the page is fetched and its own containers
\* are extracted; an exception is an error result
main_fetch(r) ==
    /\ prog = "main"
    /\ run[r].pc = "m_fetch"
    /\ \E p \in env.mpages :
         LET me == [run[r] EXCEPT !.n_bs = @ + 1] IN
         run' = [run EXCEPT ![r] =
                   IF p.ok THEN MainOnPage(me, p)
                   ELSE MainReturn(me, ErrorResult(p.msg))]
    /\ SCRAPING_STATE' = get_next_headers(SCRAPING_STATE)
    /\ UNCHANGED <<prog, env>>

\* one listing page is fetched and its containers are extracted; an
\* exception skips the page
main_listing(r) ==
    /\ prog = "main"
    /\ run[r].pc = "m_listing"
    /\ \E lp \in env.mlistings :
         LET me == run[r]
             listing_url == Head(me.links)
             data == IF lp.ok
                     THEN AddContainers(me.data, lp.cs, listing_url, lp.script,
                                        me.limit, TRUE)
                     ELSE me.data
             me1 == [me EXCEPT !.data = data, !.links = Tail(@)]
         IN run' = [run EXCEPT ![r] =
                      IF me1.links = <<>> \/ Len(data) >= me.limit
                      THEN AfterListing(me1) ELSE me1]
    /\ SCRAPING_STATE' = get_next_headers(SCRAPING_STATE)
    /\ UNCHANGED <<prog, env>>

\* one product page is fetched: an item with its title or price, unless the
\* title is already in data; an exception skips the page
main_detail(r) ==
    /\ prog = "main"
    /\ run[r].pc = "m_detail"
    /\ \E d \in env.mdetails :
         LET me == run[r]
             prod_link == Head(me.links)
             title == DetailTitle(d)
             item == Rec(IF title # None THEN Trunc(title) ELSE None,
                         prod_link, d.price)
             data == IF d.ok /\ Keep(item) /\ ~DupTitle(me.data, item)
                     THEN Append(me.data, item) ELSE me.data
             me1 == [me EXCEPT !.data = data, !.links = Tail(@)]
         IN run' = [run EXCEPT ![r] =
                      IF me1.links = <<>> \/ Len(data) >= me.limit
                      THEN MainFinish(me1) ELSE me1]
    /\ SCRAPING_STATE' = get_next_headers(SCRAPING_STATE)
    /\ UNCHANGED <<prog, env>>

MainStep(r) ==
    \/ scrape_website(r)
    \/ access_check(r)
    \/ main_fetch(r)
    \/ main_listing(r)
    \/ main_detail(r)

\* ------------------------------------------------------ the outside
Limits == -1..MaxLimit

Bodies(maxSeeds, limits, selenium) ==
    [urls : SeqsOf(SeedUrls, 0, maxSeeds), product_limit : limits,
     use_selenium : selenium]

FailPage == [ok |-> FALSE, nc |-> 0, c |-> NoContainer, doc |-> None,
             links |-> <<>>]

\* a fetched page as the pipelines see it: how many containers the selectors
\* match (nc), the single container when there is one, the document title,
\* the product links
Pages(containers, docs, links) ==
    {FailPage}
    \cup [ok : {TRUE}, nc : {0, 2}, c : {NoContainer}, doc : docs, links : links]
    \cup [ok : {TRUE}, nc : {1}, c : containers, doc : docs, links : links]

\* pages on which the container selectors match two elements, each with
\* the content c
ApiListings(containers, docs, links) ==
    [ok : {TRUE}, nc : {2}, c : containers, doc : docs, links : links]

\* a seed's page as extract_node sees it: fetched or not, its product links
SeedPages(links) ==
    {[ok |-> FALSE, links |-> <<>>]} \cup [ok : {TRUE}, links : links]

FailSub == [ok |-> FALSE, cs |-> <<>>, doc |-> None]

\* a followed page: its containers in document order and its title
SubPages(containers, docs, maxBlocks) ==
    {FailSub} \cup [ok : {TRUE}, cs : SeqsOf(containers, 0, maxBlocks), doc : docs]

Titled == [title |-> "T1", href |-> None, price |-> "9.00"]
Linked == [title |-> "T2", href |-> "a/p1", price |-> None]

Item1 == [title |-> "T1", link |-> None, price |-> "9.00"]
Item2 == [title |-> None, link |-> "a/p2", price |-> None]

\* the model's answers: an exception of the call, no array in the text, an
\* array that is no JSON, items followed by one that is no object, items
Llms ==
    [kind : {"error", "nomatch", "badjson"}, items : {<<>>}]
    \cup [kind : {"illtyped"}, items : {<<>>, <<Item1>>}]
    \cup [kind : {"items"}, items : {<<>>, <<Item1>>, <<Item1, Item2>>}]

Robots ==
    [kind : {"raise", "http_403", "http_404", "http_5xx"}, allow : {TRUE},
     delay : {0}]
    \cup [kind : {"parsed"}, allow : BOOLEAN, delay : {0, 2}]

Analyses ==
    {[ok |-> FALSE, dyn |-> FALSE, patterns |-> <<>>],
     [ok |-> TRUE, dyn |-> FALSE, patterns |-> <<>>],
     [ok |-> TRUE, dyn |-> TRUE, patterns |-> <<"price pattern found",
                                               "product pattern found">>]}

\* the orchestrator's surroundings
ApiEnv ==
    [bodies |-> Bodies(MaxSeeds, 0..MaxLimit, BOOLEAN),
     analyses |-> Analyses,
     robots |-> {o \in Robots : o.kind \in {"raise", "parsed"} /\ o.delay = 0},
     seedpages |-> SeedPages(ListsOf(LinkUrls, 1)),
     pages |-> Pages({NoContainer, Titled}, {None}, ListsOf(LinkUrls, 1)),
     subpages |-> SubPages({Titled}, {None}, 1),
     llms |-> {o \in Llms : Len(o.items) <= 1},
     chrome |-> BOOLEAN]

MContainer(heading, sel, alt, href, price) ==
    [heading |-> heading, sel |-> sel, alt |-> alt, href |-> href,
     price |-> price]
MTitled == MContainer("T1", None, None, None, "9.00")
MPlain == MContainer("T2", None, None, "a/p1", None)
MEmpty == MContainer(None, None, None, None, None)

\* a page as main.py's pipeline sees it: its containers in document order,
\* its same-site listing links (at most 3 are kept), its product links,
\* its title, the price an inline script carries
MainPages(msgs, containers, maxBlocks, listings, links, docs, scripts) ==
    [ok : {FALSE}, msg : msgs, cs : {<<>>}, listing : {<<>>}, links : {<<>>},
     doc : {None}, script : {None}]
    \cup [ok : {TRUE}, msg : {None}, cs : SeqsOf(containers, 0, maxBlocks),
          listing : listings, links : links, doc : docs, script : scripts]

ListingPages(containers, maxBlocks, scripts) ==
    {[ok |-> FALSE, cs |-> <<>>, script |-> None]}
    \cup [ok : {TRUE}, cs : SeqsOf(containers, 0, maxBlocks), script : scripts]

DetailPages(h1s, ogs, docs, prices) ==
    {[ok |-> FALSE, h1 |-> None, og |-> None, doc |-> None, price |-> None]}
    \cup [ok : {TRUE}, h1 : h1s, og : ogs, doc : docs, price : prices]

\* the answers to the access check: an exception with its text, a status
\* of 400 or more, a status below 400
Checks(msgs) ==
    [kind : {"raise"}, msg : msgs]
    \cup [kind : {"http_error", "ok"}, msg : {None}]

ListingUrls == {"a/c1"}

\* main.py's surroundings
MainEnv ==
    [bodies |-> Bodies(MaxSeeds, 0..MaxLimit, {FALSE}),
     checks |-> Checks({"", "timeout"}),
     mpages |-> MainPages({"", "timeout"}, {MTitled, MPlain}, MaxBlocks,
                          ListsOf(ListingUrls, 1), ListsOf(LinkUrls, 1),
                          {None, "Doc"}, {None}),
     mlistings |-> ListingPages({MTitled}, 1, {None}),
     mdetails |-> DetailPages({None, "T1"}, {None}, {None}, {None, "9.00"})]

\* the process after import: the rotation at the first profile, an empty
\* robots cache, no product_limit key
FreshState ==
    [headers_list |-> headers_list,
     current_header_index |-> 0,
     robots_cache |-> [o \in Origins |-> NoCheck],
     has_product_limit |-> FALSE,
     product_limit |-> DefaultLimit]

Alone == [r \in Runs |-> IF r = 1 THEN IdleRun ELSE [IdleRun EXCEPT !.pc = "off"]]

\* one request to a fresh process of either service
Init ==
    /\ \/ prog = "api" /\ env = ApiEnv
       \/ prog = "main" /\ env = MainEnv
    /\ SCRAPING_STATE = FreshState
    /\ run = Alone

Next == \E r \in Runs : ApiStep(r) \/ MainStep(r)

Spec == Init /\ [][Next]_vars


\* ------------------------------------------- concurrent request tasks
\* Several requests are in flight in one process: their tasks interleave at
\* the awaits.  The pages are bare (no container, no link), so that a task
\* goes through its fetches without collecting records.
BarePages == {p \in Pages({}, {None}, {<<>>}) : p.nc = 0}

ConcApiEnv ==
    [bodies |-> Bodies(1, 1..MaxLimit, {FALSE}),
     analyses |-> {a \in Analyses : a.ok /\ ~a.dyn},
     robots |-> Robots,
     seedpages |-> SeedPages({<<>>}),
     pages |-> BarePages,
     subpages |-> {},
     llms |-> {},
     chrome |-> {}]

ConcMainEnv ==
    [bodies |-> Bodies(1, 1..MaxLimit, {FALSE}),
     checks |-> {a \in Checks({}) : TRUE},
     mpages |-> MainPages({"timeout"}, {}, 0, {<<>>}, {<<>>}, {None}, {None}),
     mlistings |-> {},
     mdetails |-> {}]

InitConc ==
    /\ \/ prog = "api" /\ env = ConcApiEnv
       \/ prog = "main" /\ env = ConcMainEnv
    /\ SCRAPING_STATE = FreshState
    /\ run = [r \in Runs |-> IdleRun]

NextConc ==
    \E r \in Runs :
       \/ scrape_endpoint(r)
       \/ analyze_node(r)
       \/ check_robots_node(r)
       \/ extract_node(r)
       \/ expand_seed(r)
       \/ bs_fetch(r)
       \/ save_node(r)
       \/ after_workflow(r)
       \/ scrape_website(r)
       \/ access_check(r)
       \/ main_fetch(r)

SpecConc == InitConc /\ [][NextConc]_vars


\* ------------------------------------------- the pipelines on their own
\* One call of a per-URL pipeline, as extract_node, run_workflow and
\* scrape_website make it: the URL, the item limit (main.py's argument, the
\* orchestrator's SCRAPING_STATE entry, possibly absent) and the page are
\* arbitrary.
MEmptyLong == MContainer(None, "Long", None, None, None)
MLong == MContainer("Long", None, None, None, None)

PipeApiEnv ==
    [bodies |-> {},
     analyses |-> {},
     robots |-> {},
     seedpages |-> {},
     pages |-> Pages({NoContainer, Titled, Linked}, {None, "Doc"},
                     ListsOf(LinkUrls, MaxLinks))
               \cup ApiListings({Titled, Linked}, {None}, ListsOf(LinkUrls, 1)),
     subpages |-> SubPages({NoContainer, Titled}, {None, "Doc"}, MaxBlocks),
     llms |-> Llms,
     chrome |-> BOOLEAN]

PipeMainEnv ==
    [bodies |-> {},
     checks |-> {},
     mpages |-> MainPages({"", "timeout"}, {MTitled, MPlain, MEmpty},
                          MaxBlocks, ListsOf(ListingUrls, 1),
                          ListsOf(LinkUrls, MaxLinks), {None, "Doc"}, {None}),
     mlistings |-> ListingPages({MTitled, MPlain, MEmptyLong, MLong}, MaxBlocks,
                                {None}),
     mdetails |-> DetailPages({None, "Long"}, {None, "T2"}, {None},
                              {None, "9.00"})]

Called(pc, url, limit) ==
    [r \in Runs |->
       IF r = 1
       THEN [IdleRun EXCEPT !.pc = pc, !.ctx = "direct", !.url = url,
                            !.limit = limit]
       ELSE [IdleRun EXCEPT !.pc = "off"]]

InitPipe ==
    \/ /\ prog = "api"
       /\ env = PipeApiEnv
       /\ \/ SCRAPING_STATE = FreshState
          \/ \E l \in Limits :
               SCRAPING_STATE = [FreshState EXCEPT !.has_product_limit = TRUE,
                                                   !.product_limit = l]
       /\ \E pc \in {"bs_fetch", "sel_start"}, url \in SeedUrls :
            run = Called(pc, url, 0)
    \/ /\ prog = "main"
       /\ env = PipeMainEnv
       /\ SCRAPING_STATE = FreshState
       /\ \E url \in SeedUrls, l \in Limits : run = Called("m_fetch", url, l)

NextPipe ==
    \E r \in Runs :
       \/ bs_fetch(r)
       \/ bs_follow(r)
       \/ bs_llm(r)
       \/ sel_start(r)
       \/ sel_load(r)
       \/ sel_follow(r)
       \/ sel_llm(r)
       \/ main_fetch(r)
       \/ main_listing(r)
       \/ main_detail(r)

SpecPipe == InitPipe /\ [][NextPipe]_vars


\* ------------------------------------------------------- properties
Started(me) == me.pc \notin {"idle", "off"}
Answered(me) == me.pc = "done" /\ me.ctx # "direct"
InSelenium(me) == me.pc \in {"sel_load", "sel_follow", "sel_llm"}
Returned(me) == me.pc = "done" /\ me.ctx = "direct"

\* the last resort's record for the call me has returned from
Placeholder(me) ==
    Rec(IF me.page.doc # None THEN me.page.doc
        ELSE IF prog = "main" THEN "No products found" ELSE "No title",
        me.url, None)

\* C1: in both services the step that receives a request with an empty
\* urls list answers 400, issues no fetch (no counter and no local of the
\* task changes) and leaves SCRAPING_STATE (header index, robots cache,
\* product_limit) as it was; the task takes no step after its answer.
C1_EmptyRequestRejected ==
    [][\A r \in Runs :
         /\ (run[r].pc = "idle" /\ run'[r].pc # "idle"
                /\ run'[r].body.urls = <<>>)
              => /\ run'[r] = [IdleRun EXCEPT !.pc = "done",
                                              !.body = run'[r].body,
                                              !.resp = [code |-> 400]]
                 /\ SCRAPING_STATE' = SCRAPING_STATE
         /\ Answered(run[r]) => run'[r] = run[r]]_vars

\* an empty request has been rejected while another request is in flight
\* and the shared state is no longer the fresh one
C1_Witness ==
    \E r, q \in Runs :
       /\ r # q
       /\ run[r].pc = "done" /\ run[r].body.urls = <<>> /\ run[r].resp.code = 400
       /\ Started(run[q]) /\ run[q].pc # "done"
       /\ SCRAPING_STATE # FreshState

\* C2: once the decision of check_robots_txt has can_fetch false, the
\* request makes no expansion fetch and calls no pipeline, static or
\* rendered, and its answer holds no record, use_selenium set or not.
C2_BlockedBatchFetchesNothing ==
    \A r \in Runs :
       (prog = "api" /\ ~run[r].robots_check.can_fetch)
         => /\ run[r].n_expand = 0 /\ run[r].n_bs = 0 /\ run[r].n_sel = 0
            /\ Answered(run[r]) => run[r].resp.data = <<>>

\* C3: once the decision has can_fetch false and extract_node has run, the
\* status is "blocked" for the rest of the request: the workflow ends
\* with it and no later node changes it.
C3_BlockedIsTerminal ==
    \A r \in Runs :
       (prog = "api" /\ ~run[r].robots_check.can_fetch
          /\ run[r].pc \in {"save", "after", "done"})
         => run[r].status = "blocked"

\* C4: when robots.txt could not be fetched or parsed (an exception, an
\* HTTP error answer), check_robots_txt returns can_fetch true with
\* crawl_delay 1 and status "no_robots_txt", and the request is never
\* blocked.
C4_NoPolicyIsPermissive ==
    \A r \in Runs :
       (prog = "api"
          /\ run[r].robots_outcome \in {"raise", "http_403", "http_404",
                                        "http_5xx"})
         => /\ run[r].robots_check = RobotsDefault(run[r].body.urls[1])
            /\ run[r].status # "blocked"

\* C5: scrape_website's answer lists one error for every seed that failed
\* (access check answered 400 or more, an exception, an error result of the
\* pipeline), and every seed of the request has been processed.
C5_SeedFailuresListed ==
    \A r \in Runs :
       (prog = "main" /\ Answered(run[r]) /\ run[r].resp.code = 200)
         => /\ Len(run[r].resp.errors) = run[r].n_fail
            /\ run[r].n_check = Len(run[r].body.urls)

\* C6: every answer to a batch request that is not the 400 of validation
\* carries a status among success, partial, no_data, blocked and an error
\* list, in both services.
C6_AnswerHasStatusAndErrors ==
    \A r \in Runs :
       Answered(run[r])
         => /\ run[r].resp.code \in {200, 400}
            /\ run[r].resp.code = 200
                 => /\ "status" \in DOMAIN run[r].resp
                    /\ "errors" \in DOMAIN run[r].resp
                    /\ run[r].resp.status \in {"success", "partial",
                                               "no_data", "blocked"}

\* C7: a task holds a browser session only inside extract_with_selenium,
\* and there exactly one: whenever the function has returned (records, an
\* error result, after a failed page load, link or model call) the driver it
\* created has been quit.
C7_DriverAlwaysQuit ==
    \A r \in Runs :
       /\ run[r].sessions <= 1
       /\ InSelenium(run[r]) => run[r].driver /\ run[r].sessions = 1
       /\ ~InSelenium(run[r]) => ~run[r].driver /\ run[r].sessions = 0

\* extract_with_selenium created a driver, failed to load the page and
\* returned its error result; the request goes on with the next URL
C7_Witness ==
    \E r \in Runs :
       /\ run[r].pc = "sel_start" /\ run[r].n_sel >= 1
       /\ run[r].result = ErrorResult("render")
       /\ run[r].sessions = 0

\* C8: main.py's extract_with_beautifulsoup(url, product_limit) returns at
\* most product_limit records, for every integer product_limit, 0 included.
C8_AtMostLimitRecords ==
    \A r \in Runs :
       (prog = "main" /\ Returned(run[r]))
         => Len(run[r].result.data) <= run[r].limit

\* C9: every item limit a request's pipelines have read is the
\* product_limit of that request's own body, whatever other requests the
\* process serves meanwhile.
C9_OwnLimitUsed ==
    \A r \in Runs :
       prog = "api" => run[r].limits_used \subseteq {run[r].body.product_limit}

\* C10 as stated: a pipeline whose page was fetched, with at most one
\* container and no product link, returns exactly the placeholder record.
C10_PlaceholderAsStated ==
    \A r \in Runs :
       (Returned(run[r]) /\ run[r].pc = "done" /\ run[r].n_sel = 0
          /\ run[r].page.ok /\ run[r].page.links = <<>>
          /\ (IF prog = "main" THEN Len(run[r].page.cs) ELSE run[r].page.nc) <= 1)
         => run[r].result.data = <<Placeholder(run[r])>>

\* C10: extract_with_beautifulsoup returns exactly the placeholder record
\* (document title or the default text, the URL, no price) for a fetched
\* page without product links that has, in main.py, at most one container
\* and no listing link, and in webscrapper_api.py, no container.
C10_Placeholder ==
    \A r \in Runs :
       (Returned(run[r]) /\ run[r].n_sel = 0
          /\ run[r].page.ok /\ run[r].page.links = <<>>
          /\ (IF prog = "main"
              THEN Len(run[r].page.cs) <= 1 /\ run[r].page.listing = <<>>
              ELSE run[r].page.nc = 0))
         => run[r].result.data = <<Placeholder(run[r])>>

\* main.py's pipeline has returned the placeholder for a page with one
\* container that carries a title and a price
C10_Witness ==
    \E r \in Runs :
       /\ prog = "main" /\ Returned(run[r])
       /\ run[r].page.ok /\ run[r].page.cs = <<MTitled>>
       /\ run[r].page.links = <<>> /\ run[r].page.listing = <<>>
       /\ run[r].limit >= 1
       /\ run[r].result.data = <<Placeholder(run[r])>>

\* the links of a list of records, in order
LinksOf(items) == [k \in 1..Len(items) |-> items[k].link]

\* C11: the records scrape_endpoint answers with never hold two records
\* with the same link, use_selenium set or not.
C11_AnswerLinksDistinct ==
    \A r \in Runs :
       (prog = "api" /\ Answered(run[r]) /\ run[r].resp.code = 200)
         => NoDup(LinksOf(run[r].resp.data))

\* ------------------------------------ scrape_website's filter on its own
\* The loop of lines 435-443 applied to an arbitrary list of items.
MaxItems == 3

DedupItems ==
    [title : {None, "", "T1", "T2"}, link : {"a/x", "a/p1"}, price : {None}]

\* one application of the filter: all_data is the list, data the result
dedup_title_link(r) ==
    /\ prog = "main"
    /\ run[r].pc = "m_dedup"
    /\ run' = [run EXCEPT ![r].data = DedupByTitleLink(run[r].all_data, {}),
                          ![r].pc = "done"]
    /\ UNCHANGED <<prog, env, SCRAPING_STATE>>

InitDedup ==
    /\ prog = "main"
    /\ env = [lists |-> SeqsOf(DedupItems, 0, MaxItems)]
    /\ SCRAPING_STATE = FreshState
    /\ \E items \in env.lists :
         run = [Called("m_dedup", None, 0) EXCEPT ![1].all_data = items]

NextDedup == \E r \in Runs : dedup_title_link(r)

SpecDedup == InitDedup /\ [][NextDedup]_vars

KeysOf(items) == [k \in 1..Len(items) |-> <<items[k].title, items[k].link>>]

\* C12: the (title, link) filter of scrape_website gives a list that the
\* filter maps to itself, whose (title, link) pairs are distinct and whose
\* titles are all non-empty.
C12_DedupIdempotent ==
    \A r \in Runs :
       Returned(run[r])
         => /\ DedupByTitleLink(run[r].data, {}) = run[r].data
            /\ NoDup(KeysOf(run[r].data))
            /\ \A k \in 1..Len(run[r].data) : Truthy(run[r].data[k].title)

\* the filter has dropped a repeated pair and kept two items
C12_Witness ==
    \E r \in Runs :
       /\ Returned(run[r])
       /\ ~NoDup(KeysOf(run[r].all_data))
       /\ Len(run[r].data) = 2
       /\ Len(run[r].all_data) = 3

\* ------------------------------------------ a page of product cards
\* One seed whose page holds product cards, each with a heading and a
\* price element, sent to main.py's scrape_website.
MCard(t) == MContainer(t, None, None, None, "9.00")

CardsEnv ==
    [bodies |-> [urls : {<<u>> : u \in SeedUrls},
                 product_limit : 1..(MaxLimit + 1), use_selenium : {FALSE}],
     checks |-> Checks({"timeout"}),
     mpages |-> MainPages({"timeout"}, {MCard("T1"), MCard("T2"), MCard("T3")},
                          MaxBlocks + 1, {<<>>}, {<<>>}, {None, "Doc"}, {None}),
     mlistings |-> {},
     mdetails |-> {}]

InitCards ==
    /\ prog = "main"
    /\ env = CardsEnv
    /\ SCRAPING_STATE = FreshState
    /\ run = Alone

NextCards ==
    \E r \in Runs : scrape_website(r) \/ access_check(r) \/ main_fetch(r)

SpecCards == InitCards /\ [][NextCards]_vars

HeadingsOf(cs) == [k \in 1..Len(cs) |-> cs[k].heading]

\* C13: scrape_website, given one seed whose page has n >= 2 containers
\* with distinct headings and a price each, and a limit L with 2 <= L <= n,
\* answers with exactly L records: those of the first L containers, in the
\* order of the document.
C13_CardsInDocumentOrder ==
    \A r \in Runs :
       LET me == run[r]
           L == me.body.product_limit
       IN (prog = "main" /\ Answered(me) /\ me.resp.code = 200
             /\ Len(me.body.urls) = 1 /\ me.n_bs = 1 /\ me.page.ok
             /\ NoDup(HeadingsOf(me.page.cs))
             /\ (\A k \in 1..Len(me.page.cs) :
                   me.page.cs[k].heading # None /\ me.page.cs[k].price # None)
             /\ 2 <= L /\ L <= Len(me.page.cs))
            => me.resp.data =
                 [k \in 1..L |-> extract_product_info(me.page.cs[k],
                                                      me.body.urls[1], None)]

\* C14: a request with use_selenium never runs extract_with_beautifulsoup:
\* every per-URL extraction made for it is a call of extract_with_selenium.
C14_ForcedRenderOnly ==
    \A r \in Runs :
       (prog = "api" /\ run[r].body.use_selenium) => run[r].n_bs = 0

\* ------------------------------------------- extract_node's expansion
\* Requests whose seed pages carry up to ExpandCap + 1 product links, up to
\* the point where extract_node hands its list of URLs to the pipelines.
ManyLinks ==
    <<"a/p1", "a/p2", "a/p3", "a/p4", "a/p5", "a/p6", "a/p7", "a/p8", "a/p9",
      "a/p10", "a/p11">>

LinkRuns ==
    {<<>>} \cup {SubSeq(ManyLinks, i, j) : i, j \in 1..Len(ManyLinks)}

ExpandEnv ==
    [bodies |-> Bodies(MaxSeeds, {1}, {FALSE}),
     analyses |-> {a \in Analyses : a.ok /\ ~a.dyn},
     robots |-> {o \in Robots : o.kind = "parsed" /\ o.allow /\ o.delay = 0},
     seedpages |-> SeedPages(LinkRuns),
     pages |-> {},
     subpages |-> {},
     llms |-> {},
     chrome |-> {}]

InitExpand ==
    /\ prog = "api"
    /\ env = ExpandEnv
    /\ SCRAPING_STATE = FreshState
    /\ run = Alone

NextExpand ==
    \E r \in Runs :
       \/ scrape_endpoint(r)
       \/ analyze_node(r)
       \/ check_robots_node(r)
       \/ extract_node(r)
       \/ expand_seed(r)

SpecExpand == InitExpand /\ [][NextExpand]_vars

\* extract_node has finished its expansion and is about to extract
Expanded(me) == me.ctx = "extract" /\ me.j = 1

\* C15: when extract_node starts its extractions, every seed is represented
\* in the list of URLs to extract: by one of its product links when its
\* page had some, by itself when it had none or could not be fetched.
C15_EverySeedRepresented ==
    \A r \in Runs :
       Expanded(run[r])
         => \A k \in 1..Len(run[r].body.urls) :
               IF run[r].seed_links[k] = <<>>
               THEN run[r].body.urls[k] \in Range(run[r].final_urls)
               ELSE Range(run[r].seed_links[k]) \cap Range(run[r].final_urls)
                      # {}

\* C16: the status of a request changes only along initialized -> analyzed
\* -> checked_policy -> blocked | extracted | no_data -> completed | failed
\* (completed only from extracted, failed only from no_data), and it is
\* checked_policy when extract_node is entered.
C16_StatusChain ==
    [][LET chain ==
             {<<"none", "initialized">>, <<"initialized", "analyzed">>,
              <<"analyzed", "checked_policy">>,
              <<"checked_policy", "blocked">>,
              <<"checked_policy", "extracted">>,
              <<"checked_policy", "no_data">>,
              <<"extracted", "completed">>, <<"no_data", "failed">>}
       IN \A r \in Runs :
             prog = "api"
               => /\ run'[r].status # run[r].status
                       => <<run[r].status, run'[r].status>> \in chain
                  /\ run'[r].pc = "extract"
                       => run'[r].status = "checked_policy"]_vars

\* C17: when extract_with_selenium has returned an error result for a URL
\* (no driver, or an exception), the loop goes on with the next URL and
\* the records collected so far hold a placeholder for the failed URL: a
\* record with that URL as link and no price.
C17_RenderFailureLeavesPlaceholder ==
    \A r \in Runs :
       LET me == run[r]
           urls == IF me.ctx = "rerun" THEN me.body.urls ELSE me.final_urls
       IN (prog = "api" /\ me.ctx \in {"extract", "rerun"} /\ me.j >= 2
             /\ (me.ctx = "rerun" \/ me.analysis_result.is_dynamic)
             /\ me.result.error)
            => \E k \in 1..Len(me.all_data) :
                  /\ me.all_data[k].link = urls[me.j - 1]
                  /\ me.all_data[k].price = None

\* C18: when analyze_website failed, the analysis stored is the default one
\* (not dynamic, not e-commerce, no pattern, method beautifulsoup) with an
\* error note; the workflow has gone on to check_robots_txt, and
\* extract_node extracts with the static pipeline (the browser runs only in
\* the re-run that use_selenium asks for).
C18_AnalysisFailureIsDefault ==
    \A r \in Runs :
       LET me == run[r] IN
       (prog = "api" /\ me.analysis_result.error)
         => /\ me.analysis_result =
                 [NoAnalysis EXCEPT !.url = me.body.urls[1], !.error = TRUE]
            /\ me.status # "initialized"
            /\ me.pc = "check_robots" \/ me.robots_outcome # "none"
            /\ me.ctx = "extract" => me.pc \in {"bs_fetch", "bs_follow", "bs_llm"}
            /\ me.n_sel > 0 => me.body.use_selenium /\ me.pc \notin {"save", "after"}
                                /\ me.ctx # "extract"

\* a request whose analysis failed has been answered with records that the
\* static pipeline extracted
C18_Witness ==
    \E r \in Runs :
       /\ prog = "api" /\ run[r].analysis_result.error
       /\ Answered(run[r]) /\ run[r].n_bs >= 1 /\ run[r].n_sel = 0
       /\ run[r].resp.code = 200 /\ run[r].resp.data # <<>>

\* C19: every record a per-URL pipeline returns has a title or a price,
\* except the placeholder, of which a result holds at most one.
C19_TitleOrPrice ==
    \A r \in Runs :
       LET me == run[r]
           data == me.result.data
       IN Returned(me) /\ me.page.ok /\ ~me.result.error
            => /\ \A k \in 1..Len(data) :
                    Keep(data[k]) \/ data[k] = Placeholder(me)
               /\ \A k, l \in 1..Len(data) :
                    (~Keep(data[k]) /\ ~Keep(data[l])) => k = l

\* C20: every URL fetched during a request is one of its seeds or is linked
\* from a seed's page: a link is followed only from a seed's page, unless
\* the link is itself a seed or stands on a seed's page.
C20_AtMostOneHop ==
    \A r \in Runs :
       LET me == run[r]
           seeds == Range(me.body.urls)
           linked == UNION {Range(me.seed_links[k]) : k \in 1..Len(me.seed_links)}
       IN (me.ctx \in {"extract", "rerun"} /\ me.pc \in {"bs_follow", "sel_follow"})
            => \/ me.url \in seeds
               \/ Head(me.links) \in seeds \cup linked

\* C21: a decision stored in robots_cache for an origin is never changed or
\* removed, and every later check_robots_txt for a URL of that origin
\* returns it without reading robots.txt.
C21_StoredDecisionKept ==
    [][\A key \in Origins :
          SCRAPING_STATE.robots_cache[key] # NoCheck
            => /\ SCRAPING_STATE'.robots_cache[key] = SCRAPING_STATE.robots_cache[key]
               /\ \A r \in Runs :
                    (/\ run[r].pc = "check_robots" /\ run'[r].pc # "check_robots"
                     /\ Origin(run[r].body.urls[1]) = key)
                      => /\ run'[r].robots_check = SCRAPING_STATE.robots_cache[key]
                         /\ run'[r].robots_outcome = "cached"]_vars

C21_Witness ==
    \E r \in Runs :
       /\ run[r].robots_outcome = "cached"
       /\ run[r].robots_check.url # run[r].body.urls[1]
       /\ run[r].robots_check = SCRAPING_STATE.robots_cache[Origin(run[r].body.urls[1])]

\* ------------------------------------------------------ extract_price
\* Texts are sequences of one-character strings; the absent price (None)
\* is the empty sequence, which no match of the pattern can be.
MaxPriceLen == 4
PriceChars == {"0", "1", ".", ",", "$"}
Digits == {"0", "1", "2", "3", "4", "5", "6", "7", "8", "9"}
Seps == {".", ","}

\* the end of the run of digits of val that starts at position i
RECURSIVE DigitsEnd(_, _)
DigitsEnd(val, i) ==
    IF i < Len(val) /\ val[i + 1] \in Digits THEN DigitsEnd(val, i + 1) ELSE i

\* re.search(r'[\d]+(?:[.,]\d+)?', val): the leftmost digit starts the
\* match, the digits after it belong to it, and so does a separator that a
\* digit follows, with that digit's run; <<>> when val has no digit
RECURSIVE SearchNumber(_, _)
SearchNumber(val, i) ==
    IF i > Len(val) THEN <<>>
    ELSE IF val[i] \notin Digits THEN SearchNumber(val, i + 1)
    ELSE LET j == DigitsEnd(val, i)
             k == IF j + 2 <= Len(val) /\ val[j + 1] \in Seps
                     /\ val[j + 2] \in Digits
                  THEN DigitsEnd(val, j + 2) ELSE j
         IN SubSeq(val, i, k)

\* clean_price: the match with ',' replaced by '.', and a '.' put before
\* the last two digits of a match of 3 or more digits without one
clean_price(val) ==
    LET m == SearchNumber(val, 1)
        price_str == [k \in 1..Len(m) |-> IF m[k] = "," THEN "." ELSE m[k]]
    IN IF m = <<>> THEN <<>>
       ELSE IF (\A k \in 1..Len(price_str) : price_str[k] # ".")
               /\ Len(price_str) > 2
       THEN SubSeq(price_str, 1, Len(price_str) - 2) \o <<".">>
              \o SubSeq(price_str, Len(price_str) - 1, Len(price_str))
       ELSE price_str

\* extract_price on a container with at most one element that a price
\* pattern matches: c.txt is the element's text, c.attr the first of its
\* content/data-price/aria-label/value attributes that is set, c.script the
\* number after "price" in a script of the document (<<>> when absent)
extract_price(c) ==
    LET script == IF c.script # <<>> THEN clean_price(c.script) ELSE <<>> IN
    IF prog = "api"
    THEN IF c.elem /\ c.txt # <<>> THEN clean_price(c.txt)
         ELSE IF c.elem /\ c.attr # <<>> THEN clean_price(c.attr)
         ELSE script
    ELSE IF c.elem /\ c.txt # <<>> /\ clean_price(c.txt) # <<>>
         THEN clean_price(c.txt)
         ELSE IF c.elem /\ c.attr # <<>> /\ clean_price(c.attr) # <<>>
         THEN clean_price(c.attr)
         ELSE script

\* one call of extract_price
extract_price_call(r) ==
    /\ run[r].pc = "price"
    /\ run' = [run EXCEPT ![r].price = extract_price(run[r].price_in),
                          ![r].pc = "done"]
    /\ UNCHANGED <<prog, env, SCRAPING_STATE>>

Sample1234567 == <<"1", "2", "3", "4", "5", "6", "7">>
SampleOverMillion == <<"1", "0", "0", "0", "0", "0", "0", ".", "5">>

PriceEnv ==
    [chars |-> PriceChars,
     samples |-> {Sample1234567, SampleOverMillion},
     attrs |-> {<<>>, <<"5">>},
     scripts |-> {<<>>, <<"7", ".", "5">>}]

InitPrice ==
    /\ prog \in {"api", "main"}
    /\ env = PriceEnv
    /\ SCRAPING_STATE = FreshState
    /\ \E c \in [elem : BOOLEAN,
                 txt : SeqsOf(env.chars, 0, MaxPriceLen) \cup env.samples,
                 attr : env.attrs, script : env.scripts] :
         run = [Called("price", None, 0) EXCEPT ![1].price_in = c]

NextPrice == \E r \in Runs : extract_price_call(r)

SpecPrice == InitPrice /\ [][NextPrice]_vars

\* the number a sequence of digits denotes
RECURSIVE DigitsValue(_)
DigitsValue(ds) ==
    IF ds = <<>> THEN 0
    ELSE 10 * DigitsValue(SubSeq(ds, 1, Len(ds) - 1))
           + (CHOOSE d \in 0..9 : ToString(d) = ds[Len(ds)])

\* digits, a point and two digits, denoting a value v with 0 < v < 1,000,000
Normalized(p) ==
    /\ Len(p) >= 4
    /\ p[Len(p) - 2] = "."
    /\ \A k \in 1..Len(p) : k # Len(p) - 2 => p[k] \in Digits
    /\ DigitsValue(SubSeq(p, 1, Len(p) - 3)) < 1000000
    /\ DigitsValue(SubSeq(p, 1, Len(p) - 3)) > 0
         \/ DigitsValue(SubSeq(p, Len(p) - 1, Len(p))) > 0

\* C22: a price that extract_price returns is normalized, and a text of
\* digits only that denotes 0 or 1,000,000 and more gives no price.
C22_PriceNormalized ==
    \A r \in Runs :
       LET me == run[r]
           txt == me.price_in.txt
       IN (me.pc = "done" /\ me.ctx = "direct")
            => /\ me.price # <<>> => Normalized(me.price)
               /\ (/\ me.price_in.elem /\ txt # <<>>
                   /\ \A k \in 1..Len(txt) : txt[k] \in Digits
                   /\ DigitsValue(txt) = 0 \/ DigitsValue(txt) >= 1000000)
                    => me.price = <<>>

\* ----------------------------------------- extract_product_info alone
\* One call of main.py's extract_product_info on an arbitrary container:
\* containers holds the argument, data the item returned.
InfoEnv ==
    [mcontainers |-> [heading : {None, "T1", "Long"}, sel : {None, "T2", "Long"},
                      alt : {None, "Blue Mug", "Long"}, href : {None, "a/p1"},
                      price : {None, "9.00"}]]

extract_product_info_call(r) ==
    /\ prog = "main"
    /\ run[r].pc = "m_info"
    /\ run' = [run EXCEPT
                 ![r].data = <<extract_product_info(run[r].containers[1],
                                                    run[r].url, None)>>,
                 ![r].pc = "done"]
    /\ UNCHANGED <<prog, env, SCRAPING_STATE>>

InitInfo ==
    /\ prog = "main"
    /\ env = InfoEnv
    /\ SCRAPING_STATE = FreshState
    /\ \E c \in env.mcontainers :
         run = [Called("m_info", "a/x", 0) EXCEPT ![1].containers = <<c>>]

NextInfo == \E r \in Runs : extract_product_info_call(r)

SpecInfo == InitInfo /\ [][NextInfo]_vars

\* C23 as stated: the title is the first non-empty heading, else the first
\* title-ish element's text, else the image's alt text, and a container
\* with an alt text only gets exactly that text as its title.
C23_TitleCascadeAsStated ==
    \A r \in Runs :
       LET me == run[r]
           c == me.containers[1]
           title == me.data[1].title
       IN (Returned(me) /\ me.data # <<>>)
            => /\ c.heading # None => title = c.heading
               /\ (c.heading = None /\ c.sel # None) => title = Trunc(c.sel)
               /\ (c.heading = None /\ c.sel = None /\ c.alt # None)
                    => title = c.alt
               /\ (c.heading = None /\ c.sel = None /\ c.alt = None)
                    => title = None

\* C23: the same cascade, where the alt text that becomes the title is cut
\* to its first 200 characters.
C23_TitleCascade ==
    \A r \in Runs :
       LET me == run[r]
           c == me.containers[1]
           title == me.data[1].title
       IN (Returned(me) /\ me.data # <<>>)
            => /\ c.heading # None => title = c.heading
               /\ (c.heading = None /\ c.sel # None) => title = Trunc(c.sel)
               /\ (c.heading = None /\ c.sel = None /\ c.alt # None)
                    => title = Trunc(c.alt)
               /\ (c.heading = None /\ c.sel = None /\ c.alt = None)
                    => title = None

\* the container with the alt text "Blue Mug" only has got it as its title
C23_Witness ==
    \E r \in Runs :
       /\ Returned(run[r]) /\ run[r].data # <<>>
       /\ run[r].containers[1].heading = None /\ run[r].containers[1].sel = None
       /\ run[r].containers[1].alt = "Blue Mug"
       /\ run[r].data[1].title = "Blue Mug"

\* C24: a per-URL pipeline of webscrapper_api.py returns at most
\* product_limit records (a limit of 1 or more), whether they come from the
\* page's container, from followed product links or from the model.
C24_ApiAtMostLimitRecords ==
    \A r \in Runs :
       (prog = "api" /\ Returned(run[r]) /\ run[r].limit >= 1)
         => Len(run[r].result.data) <= run[r].limit

\* C26: a page of webscrapper_api.py's pipeline on which two containers
\* with a title or a price are located gives, for a limit of 1 or more, a
\* record built from a container of the page.
C26_ListingYieldsContainerRecords ==
    \A r \in Runs :
       LET me == run[r]
           p == me.page
       IN (/\ prog = "api" /\ Returned(me) /\ ~me.result.error /\ p.ok
           /\ p.nc >= 2 /\ Keep(ContainerRecord(p.c, p.doc, me.url))
           /\ me.limit >= 1)
            => \E k \in 1..Len(me.result.data) :
                  /\ me.result.data[k].title = ContainerRecord(p.c, p.doc, me.url).title
                  /\ me.result.data[k].price = p.c.price

TitlesOf(items) == [k \in 1..Len(items) |-> items[k].title]

\* C25: no two records of a result of main.py's extract_with_beautifulsoup
\* have the same title, a missing title counting as a title.
C25_TitlesDistinct ==
    \A r \in Runs :
       (prog = "main" /\ Returned(run[r]))
         => NoDup(TitlesOf(run[r].result.data))

\* a page with two containers alike has given one record for both, and
\* another stage has added a record
C25_Witness ==
    \E r \in Runs :
       /\ prog = "main" /\ Returned(run[r]) /\ run[r].page.ok
       /\ Len(run[r].page.cs) = 2 /\ run[r].page.cs[1] = run[r].page.cs[2]
       /\ run[r].limit >= 2
       /\ Len(run[r].result.data) = 2
       /\ run[r].result.data[1].title = ProductTitle(run[r].page.cs[1])

\* C27: in webscrapper_api.py's pipeline the model fallback is invoked once
\* when containers and link following gave no record and a container was
\* located on the page, and is not invoked otherwise.
C27_FallbackWhenContainersLocated ==
    \A r \in Runs :
       LET me == run[r] IN
       (prog = "api" /\ Returned(me) /\ ~me.result.error /\ me.page.ok)
         => /\ me.llm_calls <= 1
            /\ me.llm_calls = 1 => me.page.nc >= 1
            /\ (me.page.nc >= 1 /\ me.data = <<>>) => me.llm_calls = 1

\* C28: when the model fallback of webscrapper_api.py's pipeline fails (the
\* call raises, the answer holds no array, the array is no JSON or holds an
\* item that is no object), the pipeline returns no error result and its
\* data is the placeholder record alone.
C28_FallbackFailureGivesPlaceholder ==
    \A r \in Runs :
       LET me == run[r] IN
       (/\ prog = "api" /\ Returned(me)
        /\ me.llm_outcome \in {"error", "nomatch", "badjson", "illtyped"})
         => /\ ~me.result.error
            /\ me.result.data = <<Placeholder(me)>>

\* ------------------------------------------ the response's status code
\* The pages of the static fetch with the status code of their response:
\* httpx raises for no status code, so a response of any code is a page.
StatusCodes == {200, 404, 500}

WithStatus(pages, codes) ==
    {[ok |-> p.ok, nc |-> p.nc, c |-> p.c, doc |-> p.doc, links |-> p.links,
      code |-> code] : p \in {q \in pages : q.ok}, code \in codes}
    \cup {p \in pages : ~p.ok}

StatusEnv ==
    [bodies |-> {},
     analyses |-> {},
     robots |-> {},
     seedpages |-> {},
     pages |-> WithStatus(Pages({NoContainer, Titled}, {None, "Doc"}, {<<>>}),
                          StatusCodes),
     subpages |-> {},
     llms |-> Llms,
     chrome |-> {}]

InitStatus ==
    /\ prog = "api"
    /\ env = StatusEnv
    /\ \/ SCRAPING_STATE = FreshState
       \/ \E l \in Limits :
            SCRAPING_STATE = [FreshState EXCEPT !.has_product_limit = TRUE,
                                                !.product_limit = l]
    /\ \E url \in SeedUrls : run = Called("bs_fetch", url, 0)

NextStatus == \E r \in Runs : bs_fetch(r) \/ bs_llm(r)

SpecStatus == InitStatus /\ [][NextStatus]_vars

\* C29: a static fetch answered with a status code outside 200..299 ends
\* the pipeline with an error result that holds no record.
C29_Non2xxIsFetchFailure ==
    \A r \in Runs :
       LET me == run[r] IN
       (/\ prog = "api" /\ Returned(me) /\ me.page.ok
        /\ me.page.code \notin 200..299)
         => me.result.error /\ me.result.data = <<>>

\* C30: a request's workflow ends with status completed exactly when its
\* extraction has left at least one record, and then final_output.records
\* is the number of records left, at least 1; it ends with status failed
\* when the extraction has left none.
C30_CompletedIffRecords ==
    \A r \in Runs :
       LET me == run[r] IN
       (prog = "api" /\ Answered(me) /\ me.resp.code = 200)
         => /\ me.status = "completed" <=> me.extracted_data # <<>>
            /\ me.status = "completed"
                 => me.records = Len(me.extracted_data) /\ me.records >= 1
            /\ me.extracted_data = <<>> => me.status = "failed"

\* -------------------------------------------------- save_node alone
\* save_node on an arbitrary list of records as extract_node stores them
\* (each with a link); all_data keeps the list save_node was given.
LinkItems == [title : {"T1", "T2"}, link : {"a/x", "a/p1", "a/p2"}, price : {None}]

InitLinkDedup ==
    /\ prog = "api"
    /\ env = [lists |-> SeqsOf(LinkItems, 0, MaxItems)]
    /\ SCRAPING_STATE = FreshState
    /\ \E items \in env.lists :
         run = [r \in Runs |->
                  IF r = 1
                  THEN [IdleRun EXCEPT !.pc = "save", !.extracted_data = items,
                                       !.all_data = items,
                                       !.status = IF items # <<>> THEN "extracted"
                                                  ELSE "no_data"]
                  ELSE [IdleRun EXCEPT !.pc = "off"]]

NextLinkDedup == \E r \in Runs : save_node(r)

SpecLinkDedup == InitLinkDedup /\ [][NextLinkDedup]_vars

\* the positions of items at which a link occurs for the first time
FirstOccurrences(items) ==
    {k \in 1..Len(items) : \A l \in 1..(k - 1) : items[l].link # items[k].link}

\* C31: what save_node leaves in extracted_data is the records of its
\* input at which a link occurs for the first time, in the input's order:
\* no link twice, every link of the input once.
C31_FirstOccurrencePerLink ==
    \A r \in Runs :
       LET me == run[r]
           out == me.extracted_data
           first == FirstOccurrences(me.all_data)
       IN (prog = "api" /\ me.pc = "after" /\ me.all_data # <<>>)
            => /\ NoDup(LinksOf(out))
               /\ Range(LinksOf(out)) = Range(LinksOf(me.all_data))
               /\ Len(out) = Cardinality(first)
               /\ \A k \in 1..Len(out) :
                     \E p \in first :
                        /\ out[k] = me.all_data[p]
                        /\ Cardinality({q \in first : q < p}) = k - 1

\* save_node has dropped the second of two records with one link and kept
\* a record with another link that came after them
C31_Witness ==
    \E r \in Runs :
       /\ prog = "api" /\ run[r].pc = "after" /\ Len(run[r].all_data) = 3
       /\ run[r].all_data[1].link = run[r].all_data[2].link
       /\ run[r].all_data[1] # run[r].all_data[2]
       /\ run[r].extracted_data = <<run[r].all_data[1], run[r].all_data[3]>>

\* ------------------------------------------------ get_next_headers alone
\* Tasks that call get_next_headers one call at a time, in any order, as the
\* fetches of concurrent requests do; i counts a task's calls.
MaxCalls == 5

get_next_headers_call(r) ==
    /\ run[r].pc = "headers"
    /\ run[r].i < MaxCalls
    /\ run' = [run EXCEPT ![r].headers = headers_of(SCRAPING_STATE),
                          ![r].i = @ + 1]
    /\ SCRAPING_STATE' = get_next_headers(SCRAPING_STATE)
    /\ UNCHANGED <<prog, env>>

InitRotate ==
    /\ prog \in {"api", "main"}
    /\ env = [calls |-> MaxCalls]
    /\ SCRAPING_STATE = FreshState
    /\ run = [r \in Runs |-> [IdleRun EXCEPT !.pc = "headers"]]

NextRotate == \E r \in Runs : get_next_headers_call(r)

SpecRotate == InitRotate /\ [][NextRotate]_vars

\* C32: in every step current_header_index is an index of headers_list,
\* which stays as it was; a call of get_next_headers returns the profile at
\* the index with the two fields added and moves the index on by one,
\* back to the first profile after the last, whichever task calls.
C32_RotationInOrder ==
    [][LET S == SCRAPING_STATE
           idx == S.current_header_index
       IN /\ idx \in 0..(NumProfiles - 1)
          /\ SCRAPING_STATE'.current_header_index \in 0..(NumProfiles - 1)
          /\ Len(S.headers_list) = NumProfiles
          /\ SCRAPING_STATE'.headers_list = S.headers_list
          /\ \A k \in 1..NumProfiles : S.headers_list[k].Accept = None
          /\ \A r \in Runs :
                run'[r].i # run[r].i
                  => /\ run'[r].headers.User_Agent = S.headers_list[idx + 1].User_Agent
                     /\ run'[r].headers.Accept # None
                     /\ SCRAPING_STATE'.current_header_index
                          = IF idx = NumProfiles - 1 THEN 0 ELSE idx + 1]_vars

\* two tasks have called in turn and hold different profiles, and the index
\* is back at the first profile
C32_Witness ==
    /\ run[1].pc = "headers" /\ run[1].i = 1 /\ run[2].i = 1
    /\ run[1].headers.User_Agent # run[2].headers.User_Agent
    /\ SCRAPING_STATE.current_header_index = 0

\* C33: no title in a result of main.py's extract_with_beautifulsoup has
\* more than 200 characters ("Long" is a text of more than 200).
C33_TitleAtMost200 ==
    \A r \in Runs :
       (prog = "main" /\ Returned(run[r]))
         => \A k \in 1..Len(run[r].result.data) :
               run[r].result.data[k].title # "Long"

\* C34: the decision check_robots_txt has returned for a request's first
\* URL names that URL, whether or not a decision for another URL of the
\* same origin was obtained before.
C34_DecisionAboutUrl ==
    \A r \in Runs :
       (prog = "api" /\ run[r].robots_outcome # "none")
         => run[r].robots_check.url = run[r].body.urls[1]

\* C35: in every answer of scrape_website total_items is the number of
\* records in data, and status is "success" only when data holds a record.
C35_TotalMatchesData ==
    \A r \in Runs :
       LET me == run[r] IN
       (prog = "main" /\ Answered(me) /\ me.resp.code = 200
          /\ me.body.product_limit >= 0)
         => /\ me.resp.total_items = Len(me.resp.data)
            /\ me.resp.status = "success" => me.resp.data # <<>>

\* C36: the data of an answer of scrape_website holds no last-resort
\* record: no record without price whose link is a seed of the request and
\* whose title is the document title of the seed's page.
C36_NoPlaceholderInAnswer ==
    \A r \in Runs :
       LET me == run[r] IN
       (prog = "main" /\ Answered(me) /\ me.resp.code = 200)
         => \A k \in 1..Len(me.resp.data) :
               ~(/\ me.resp.data[k].price = None
                 /\ me.resp.data[k].link \in Range(me.body.urls)
                 /\ me.resp.data[k].title = "Doc")

\* C37: a per-URL pipeline of webscrapper_api.py follows at most
\* min(5, product_limit) product links of the page it extracts, none when
\* that number is not positive.
C37_BoundedFollowing ==
    \A r \in Runs :
       LET me == run[r] IN
       (prog = "api" /\ me.pc \in {"bs_follow", "sel_follow"})
         => Len(me.links) <= Max(0, Min(FollowCap, me.limit))

\* concurrent requests whose steps are taken as long as one is possible:
\* every fetch returns or fails
SpecLive == InitConc /\ [][NextConc]_vars /\ WF_vars(NextConc)

\* C37, termination: every request is answered in the end, the
\* orchestrator's with a workflow status of completed or failed.
C37_Terminates ==
    <>[](\A r \in Runs :
           /\ run[r].pc = "done"
           /\ prog = "api" /\ run[r].resp.code = 200
                => run[r].status \in {"completed", "failed"})

====
